---- MODULE Spec2Model ----
(***************************************************************************)
(* Model of backend/restaurant_processor.py: the block distributor         *)
(* (distribute_into_blocks) as a step-by-step state machine, the two       *)
(* deduplication passes (deduplicate_by_instagram, deduplicate_by_address) *)
(* with the normalisers they rest on, calculate_similarity,                *)
(* identify_clusters and assign_blocks_to_restaurants.                     *)
(*                                                                         *)
(* Python list positions are 0-based; the sequences below are 1-based, so  *)
(* Python's blocks[p] is blocks[p + 1] here.  Record indices keep their    *)
(* Python values 0 .. n-1.                                                 *)
(***************************************************************************)
EXTENDS Integers, Sequences, FiniteSets, TLC

VARIABLES
    num_records,        \* len(records)
    clusters,           \* cluster_id -> set of record indices (the cluster map)
    existing_blocos,    \* the pre-existing assignments, pairs <<idx, bloco>> in dict order
    max_block_size,
    min_block_size,
    start_block_num,
    cluster_records,    \* pairs <<cluster_id, list of idx>> still to be placed
    standalone_records, \* list of idx without cluster still to be placed
    blocks,             \* list of lists of indices
    block_clusters,     \* list of sets of cluster ids, one per block
    seed_k,             \* entries of existing_blocos already processed
    place_k,            \* cluster members already placed
    stand_k,            \* standalone records already placed
    iteration,          \* loop counter of the first balancing pass
    last_changed,       \* `changed` of the last iteration of the first balancing pass
    Bloco,              \* idx -> the 'Bloco' field written on the output record
    pc,                 \* position in distribute_into_blocks
    records_in,         \* the list `records` handed to distribute_into_blocks: one object per position
    records_with_blocks, \* the list of line 631, one object per position
    heap,               \* object -> the dict it is: [row, Bloco]
    dd,                 \* state of the deduplication pipeline
    sm,                 \* a call of calculate_similarity and its mirror call
    ic,                 \* state of identify_clusters
    ab                  \* state of assign_blocks_to_restaurants

dvars == <<num_records, clusters, existing_blocos, max_block_size, min_block_size,
           start_block_num, cluster_records, standalone_records, blocks,
           block_clusters, seed_k, place_k, stand_k, iteration, last_changed,
           Bloco, pc, records_in, records_with_blocks, heap>>

\* the objects distribute_into_blocks reads and writes
objs == <<records_in, records_with_blocks, heap>>

\* the state outside distribute_into_blocks
env == <<dd, sm, ic, ab>>

vars == <<dvars, env>>

----------------------------------------------------------------------------
(* Bounds of the model *)

\* largest number of records handed to distribute_into_blocks
MaxRecords == 4

\* largest number of records of the cluster-free runs (scenario with 12 records)
MaxPlainRecords == 12

\* cluster ids of the cluster map (identify_clusters numbers them from 1)
ClusterIds == {1, 2}

\* block numbers a pre-existing assignment may carry
ExistingBlockNums == {1, 3}

\* at most this many records carry a pre-existing assignment
ExistingSizes == {0, 1, 2}

\* values of start_block_num
StartBlockNums == {1, 2, 4}

\* pairs <<min_block_size, max_block_size>>
BlockSizes == {<<1, 1>>, <<1, 2>>, <<2, 2>>, <<2, 3>>, <<3, 2>>}

\* pairs <<min_block_size, max_block_size>> of the cluster-free runs
PlainBlockSizes == {<<5, 10>>, <<2, 3>>, <<3, 3>>, <<4, 2>>}

None == -1

----------------------------------------------------------------------------
(* Helpers on sequences *)

Range(s) == {s[i] : i \in DOMAIN s}

RECURSIVE SetToSeq(_)
\* the elements of a set of integers in ascending order
SetToSeq(S) ==
    IF S = {} THEN <<>>
    ELSE LET m == CHOOSE x \in S : \A y \in S : x <= y
         IN <<m>> \o SetToSeq(S \ {m})

RECURSIVE RemoveFirst(_, _)
\* list.remove(x): drops the first occurrence of x
RemoveFirst(s, x) ==
    IF s = <<>> THEN <<>>
    ELSE IF Head(s) = x THEN Tail(s)
    ELSE <<Head(s)>> \o RemoveFirst(Tail(s), x)

RECURSIVE Flatten(_)
Flatten(ss) == IF ss = <<>> THEN <<>> ELSE Head(ss) \o Flatten(Tail(ss))

----------------------------------------------------------------------------
(* distribute_into_blocks: set-up (lines 630-656) *)

\* record_cluster.get(idx): the cluster id of idx, None when it is in no cluster
record_cluster(idx) ==
    IF \E c \in DOMAIN clusters : idx \in clusters[c]
    THEN CHOOSE c \in DOMAIN clusters : idx \in clusters[c]
    ELSE None

\* Python truthiness of a cluster id (`if cluster_id:`)
Truthy(cluster_id) == cluster_id # None /\ cluster_id # 0

\* cluster_records after the loop of lines 647-652: insertion order is the order
\* of the first member met while idx runs over range(len(records))
InitialClusterRecords(n, cl) ==
    LET ids == {c \in DOMAIN cl : \E i \in cl[c] : i < n}
        first(c) == CHOOSE i \in cl[c] : i < n /\ \A j \in cl[c] : j < n => i <= j
        RECURSIVE build(_)
        build(S) ==
            IF S = {} THEN <<>>
            ELSE LET c == CHOOSE x \in S : \A y \in S : first(x) <= first(y)
                 IN <<<<c, SetToSeq({i \in cl[c] : i < n})>>>> \o build(S \ {c})
    IN build(ids)

\* the standalone records when line 652 never runs: step 3 places nobody
InitialStandaloneForgotten(n, cl) == <<>>

\* the standalone records when the loop of line 647 starts at index 1
InitialStandaloneAfterFirst(n, cl) ==
    SetToSeq({i \in 1 .. n - 1 : ~ \E c \in DOMAIN cl : i \in cl[c]})

\* standalone_records after the loop of lines 647-652
InitialStandalone(n, cl) ==
    SetToSeq({i \in 0 .. n - 1 : ~ \E c \in DOMAIN cl : i \in cl[c]})

\* cluster maps over the records 0 .. n-1: disjoint clusters, ids taken in order
ClusterMaps(n) ==
    LET assigns == [0 .. n - 1 -> ClusterIds \cup {0}]
        members(f, c) == {i \in 0 .. n - 1 : f[i] = c}
        ordered(f) == \A c \in ClusterIds :
                         members(f, c) # {} =>
                            \A b \in ClusterIds : b < c =>
                               /\ members(f, b) # {}
                               /\ \E i \in members(f, b) : \A j \in members(f, c) : i < j
    IN {[c \in {x \in ClusterIds : members(f, x) # {}} |-> members(f, c)] :
           f \in {g \in assigns : ordered(g)}}

\* maps of pre-existing assignments, as the callers build them: ascending idx
ExistingMaps(n) ==
    LET keysets == {K \in SUBSET (0 .. n) : Cardinality(K) \in ExistingSizes}
    IN UNION {{[k \in 1 .. Cardinality(K) |-> <<SetToSeq(K)[k], f[SetToSeq(K)[k]]>>] :
                  f \in [K -> ExistingBlockNums]} : K \in keysets}

\* the object that is element p of `records`; objects are numbered from 0
InputObject(p) == p

\* line 631 with the copy left out: the list holds the caller's own dicts
SameDict(n, p) == InputObject(p)

\* dict(rec) of line 631: a new object for the record at position p of a list
\* of n records
CopiedDict(n, p) == n + p

\* the 'Bloco' key an input record arrives with: the pre-existing number the
\* caller read from it (lines 1195-1205), None when it has none
InputBloco(ex, idx) ==
    IF \E k \in DOMAIN ex : ex[k][1] = idx
    THEN ex[CHOOSE k \in DOMAIN ex : ex[k][1] = idx][2]
    ELSE None

\* the dicts after line 631: the n input records and their copies
InitialHeap(n, ex) ==
    [o \in (0 .. n - 1) \cup {CopiedDict(n, p) : p \in 0 .. n - 1} |->
        LET p == IF o < n THEN o ELSE o - n
        IN [row |-> p, Bloco |-> InputBloco(ex, p)]]

DistInit(n, cl, ex, sizes, start) ==
    /\ num_records = n
    /\ records_in = [k \in 1 .. n |-> InputObject(k - 1)]
    /\ records_with_blocks = [k \in 1 .. n |-> CopiedDict(n, k - 1)]
    /\ heap = InitialHeap(n, ex)
    /\ clusters = cl
    /\ existing_blocos = ex
    /\ min_block_size = sizes[1]
    /\ max_block_size = sizes[2]
    /\ start_block_num = start
    /\ cluster_records = InitialClusterRecords(n, cl)
    /\ standalone_records = InitialStandalone(n, cl)
    /\ blocks = <<>>
    /\ block_clusters = <<>>
    /\ seed_k = 0
    /\ place_k = 0
    /\ stand_k = 0
    /\ iteration = 0
    /\ last_changed = FALSE
    /\ Bloco = [i \in 0 .. n - 1 |-> None]
    /\ pc = "distribute"

----------------------------------------------------------------------------
(* distribute_into_blocks: the early return on an empty list (lines 634-635) *)

ReturnEmpty ==
    /\ pc = "distribute"
    /\ num_records = 0
    /\ pc' = "done"
    /\ UNCHANGED <<num_records, clusters, existing_blocos, max_block_size,
                   min_block_size, start_block_num, cluster_records,
                   standalone_records, blocks, block_clusters, seed_k, place_k,
                   stand_k, iteration, last_changed, Bloco, objs, env>>

----------------------------------------------------------------------------
(* distribute_into_blocks: seeding of pre-existing blocks (lines 659-677) *)

\* the position of a Python list of length len that index p denotes
\* (negative p counts from the end); 0 when Python raises IndexError
PyIndex(len, p) ==
    IF p >= 0 THEN (IF p < len THEN p + 1 ELSE 0)
    ELSE (IF 0 - p <= len THEN len + p + 1 ELSE 0)

\* the while loop of lines 664-666: pads the list up to `wanted` entries
PadTo(s, wanted, filler) ==
    IF Len(s) >= wanted THEN s
    ELSE s \o [k \in 1 .. (wanted - Len(s)) |-> filler]

\* adjusted_bloco of line 663
AdjustedBloco(bloco_num) == bloco_num - start_block_num + 1

\* the removal of lines 675-677 left out
RemoveFromClustersForgotten(cr, idx) == cr

\* lines 675-677: idx is taken out of every list of cluster_records
RemoveFromClusters(cr, idx) ==
    [k \in DOMAIN cr |-> <<cr[k][1], RemoveFirst(cr[k][2], idx)>>]

\* one entry of existing_blocos whose idx is not a record: skipped (line 661)
SeedSkip ==
    /\ pc = "distribute"
    /\ num_records > 0
    /\ seed_k < Len(existing_blocos)
    /\ existing_blocos[seed_k + 1][1] >= num_records
    /\ seed_k' = seed_k + 1
    /\ UNCHANGED <<num_records, clusters, existing_blocos, max_block_size,
                   min_block_size, start_block_num, cluster_records,
                   standalone_records, blocks, block_clusters, place_k, stand_k,
                   iteration, last_changed, Bloco, pc, objs, env>>

\* one entry of existing_blocos is materialised in its block
SeedExisting ==
    /\ pc = "distribute"
    /\ num_records > 0
    /\ seed_k < Len(existing_blocos)
    /\ LET idx == existing_blocos[seed_k + 1][1]
           adjusted == AdjustedBloco(existing_blocos[seed_k + 1][2])
           padded == PadTo(blocks, adjusted, <<>>)
           padded_cl == PadTo(block_clusters, adjusted, {})
           at == PyIndex(Len(padded), adjusted - 1)
           cluster_id == record_cluster(idx)
       IN /\ idx < num_records
          /\ at # 0
          /\ blocks' = [padded EXCEPT ![at] = Append(@, idx)]
          /\ block_clusters' =
                IF Truthy(cluster_id)
                THEN [padded_cl EXCEPT ![at] = @ \cup {cluster_id}]
                ELSE padded_cl
          /\ standalone_records' = RemoveFirst(standalone_records, idx)
          /\ cluster_records' = RemoveFromClusters(cluster_records, idx)
    /\ seed_k' = seed_k + 1
    /\ UNCHANGED <<num_records, clusters, existing_blocos, max_block_size,
                   min_block_size, start_block_num, place_k, stand_k, iteration,
                   last_changed, Bloco, pc, objs, env>>

\* blocks[adjusted_bloco - 1] of line 667 is out of range: IndexError leaves the call
SeedRaises ==
    /\ pc = "distribute"
    /\ num_records > 0
    /\ seed_k < Len(existing_blocos)
    /\ LET idx == existing_blocos[seed_k + 1][1]
           adjusted == AdjustedBloco(existing_blocos[seed_k + 1][2])
           padded == PadTo(blocks, adjusted, <<>>)
       IN /\ idx < num_records
          /\ PyIndex(Len(padded), adjusted - 1) = 0
          /\ blocks' = padded
          /\ block_clusters' = PadTo(block_clusters, adjusted, {})
    /\ pc' = "raised"
    /\ UNCHANGED <<num_records, clusters, existing_blocos, max_block_size,
                   min_block_size, start_block_num, cluster_records,
                   standalone_records, seed_k, place_k, stand_k, iteration,
                   last_changed, Bloco, objs, env>>

----------------------------------------------------------------------------
(* distribute_into_blocks: cyclic placement of cluster members (lines 682-700) *)

\* the members still to place, in the order of the two nested loops
ClusterWork(cr) ==
    Flatten([k \in DOMAIN cr |->
                [m \in DOMAIN cr[k][2] |-> <<cr[k][1], cr[k][2][m]>>]])

\* the first block with room that does not hold the cluster; 0 when there is none
FirstFreeBlock(bl, bc, cluster_id) ==
    LET ok == {b \in DOMAIN bl : Len(bl[b]) < max_block_size /\ cluster_id \notin bc[b]}
    IN IF ok = {} THEN 0 ELSE CHOOSE b \in ok : \A o \in ok : b <= o

PlaceClusterMember ==
    /\ pc = "distribute"
    /\ num_records > 0
    /\ seed_k = Len(existing_blocos)
    /\ place_k < Len(ClusterWork(cluster_records))
    /\ LET cluster_id == ClusterWork(cluster_records)[place_k + 1][1]
           idx == ClusterWork(cluster_records)[place_k + 1][2]
           b == FirstFreeBlock(blocks, block_clusters, cluster_id)
       IN IF b # 0
          THEN /\ blocks' = [blocks EXCEPT ![b] = Append(@, idx)]
               /\ block_clusters' = [block_clusters EXCEPT ![b] = @ \cup {cluster_id}]
          ELSE /\ blocks' = Append(blocks, <<idx>>)
               /\ block_clusters' = Append(block_clusters, {cluster_id})
    /\ place_k' = place_k + 1
    /\ UNCHANGED <<num_records, clusters, existing_blocos, max_block_size,
                   min_block_size, start_block_num, cluster_records,
                   standalone_records, seed_k, stand_k, iteration, last_changed,
                   Bloco, pc, objs, env>>

----------------------------------------------------------------------------
(* distribute_into_blocks: placement of standalone records (lines 704-724) *)

\* the placement without the second loop (lines 714-718): a record goes to a
\* block below min_block_size or to a new block
StandaloneTargetMinOnly(bl) ==
    LET below_min == {b \in DOMAIN bl : Len(bl[b]) < min_block_size
                                        /\ Len(bl[b]) < max_block_size}
    IN IF below_min # {} THEN CHOOSE b \in below_min : \A o \in below_min : b <= o
       ELSE 0

\* the placement with `<=` for `<` in the tests against max_block_size
StandaloneTargetOffByOne(bl) ==
    LET below_min == {b \in DOMAIN bl : Len(bl[b]) < min_block_size
                                        /\ Len(bl[b]) <= max_block_size}
        below_max == {b \in DOMAIN bl : Len(bl[b]) <= max_block_size}
    IN IF below_min # {} THEN CHOOSE b \in below_min : \A o \in below_min : b <= o
       ELSE IF below_max # {} THEN CHOOSE b \in below_max : \A o \in below_max : b <= o
       ELSE 0

\* the block a standalone record goes to; 0 when a new block is opened
StandaloneTarget(bl) ==
    LET below_min == {b \in DOMAIN bl : Len(bl[b]) < min_block_size
                                        /\ Len(bl[b]) < max_block_size}
        below_max == {b \in DOMAIN bl : Len(bl[b]) < max_block_size}
    IN IF below_min # {} THEN CHOOSE b \in below_min : \A o \in below_min : b <= o
       ELSE IF below_max # {} THEN CHOOSE b \in below_max : \A o \in below_max : b <= o
       ELSE 0

PlaceStandalone ==
    /\ pc = "distribute"
    /\ num_records > 0
    /\ seed_k = Len(existing_blocos)
    /\ place_k = Len(ClusterWork(cluster_records))
    /\ stand_k < Len(standalone_records)
    /\ LET idx == standalone_records[stand_k + 1]
           b == StandaloneTarget(blocks)
       IN IF b # 0
          THEN /\ blocks' = [blocks EXCEPT ![b] = Append(@, idx)]
               /\ block_clusters' = block_clusters
          ELSE /\ blocks' = Append(blocks, <<idx>>)
               /\ block_clusters' = Append(block_clusters, {})
    /\ stand_k' = stand_k + 1
    /\ UNCHANGED <<num_records, clusters, existing_blocos, max_block_size,
                   min_block_size, start_block_num, cluster_records,
                   standalone_records, seed_k, place_k, iteration, last_changed,
                   Bloco, pc, objs, env>>

----------------------------------------------------------------------------
(* distribute_into_blocks: the test of line 729 *)

PlacementDone ==
    /\ seed_k = Len(existing_blocos)
    /\ place_k = Len(ClusterWork(cluster_records))
    /\ stand_k = Len(standalone_records)

EnterBalancing ==
    /\ pc = "distribute"
    /\ num_records > 0
    /\ PlacementDone
    /\ pc' = IF Len(blocks) > 1 THEN "pass1" ELSE "assign"
    /\ UNCHANGED <<num_records, clusters, existing_blocos, max_block_size,
                   min_block_size, start_block_num, cluster_records,
                   standalone_records, blocks, block_clusters, seed_k, place_k,
                   stand_k, iteration, last_changed, Bloco, objs, env>>

----------------------------------------------------------------------------
(* distribute_into_blocks: first balancing pass (lines 731-774) *)

max_iterations == 20

\* small_blocks of lines 736 and 777, ascending
SmallBlocks(bl) == SetToSeq({b \in DOMAIN bl : Len(bl[b]) < min_block_size})

\* best_target when a target must keep a free place after the move
BestTargetBelowLast(bl, bc, b_idx, cluster_id) ==
    LET ok == {t \in DOMAIN bl :
                  /\ t # b_idx
                  /\ Len(bl[t]) >= min_block_size
                  /\ Len(bl[t]) + 1 < max_block_size
                  /\ (cluster_id = None \/ cluster_id \notin bc[t])}
    IN IF ok = {} THEN 0 ELSE CHOOSE t \in ok : \A o \in ok : t <= o

\* best_target of lines 750-757; 0 when there is none
BestTarget(bl, bc, b_idx, cluster_id) ==
    LET ok == {t \in DOMAIN bl :
                  /\ t # b_idx
                  /\ Len(bl[t]) >= min_block_size
                  /\ Len(bl[t]) < max_block_size
                  /\ (cluster_id = None \/ cluster_id \notin bc[t])}
    IN IF ok = {} THEN 0 ELSE CHOOSE t \in ok : \A o \in ok : t <= o

RECURSIVE MoveRecords(_, _, _)
\* the loop of lines 746-771 over records_to_move, for the small block b_idx
MoveRecords(st, b_idx, records_to_move) ==
    IF records_to_move = <<>> THEN st
    ELSE LET idx == Head(records_to_move)
             cluster_id == record_cluster(idx)
             best_target == BestTarget(st.bl, st.bc, b_idx, cluster_id)
         IN IF best_target = 0
            THEN MoveRecords(st, b_idx, Tail(records_to_move))
            ELSE LET bl2 == [st.bl EXCEPT ![best_target] = Append(@, idx),
                                          ![b_idx] = RemoveFirst(@, idx)]
                     bc2 == IF Truthy(cluster_id)
                            THEN [st.bc EXCEPT ![best_target] = @ \cup {cluster_id},
                                               ![b_idx] = @ \ {cluster_id}]
                            ELSE st.bc
                     st2 == [bl |-> bl2, bc |-> bc2, changed |-> TRUE]
                 IN IF Len(bl2[b_idx]) = 0 THEN st2
                    ELSE MoveRecords(st2, b_idx, Tail(records_to_move))

RECURSIVE DrainBlocks(_, _)
\* the loop of lines 741-771 over small_blocks
DrainBlocks(st, small_blocks) ==
    IF small_blocks = <<>> THEN st
    ELSE LET b_idx == Head(small_blocks)
         IN IF Len(st.bl[b_idx]) = 0
            THEN DrainBlocks(st, Tail(small_blocks))
            ELSE DrainBlocks(MoveRecords(st, b_idx, st.bl[b_idx]), Tail(small_blocks))

\* one iteration of the loop of line 732
RebalanceIteration ==
    /\ pc = "pass1"
    /\ iteration < max_iterations
    /\ LET small_blocks == SmallBlocks(blocks)
           st == DrainBlocks([bl |-> blocks, bc |-> block_clusters, changed |-> FALSE],
                             small_blocks)
       IN IF small_blocks = <<>>
          THEN /\ pc' = "pass2"
               /\ UNCHANGED <<blocks, block_clusters, last_changed>>
          ELSE /\ blocks' = st.bl
               /\ block_clusters' = st.bc
               /\ last_changed' = st.changed
               /\ pc' = IF st.changed /\ iteration + 1 < max_iterations
                        THEN "pass1" ELSE "pass2"
    /\ iteration' = iteration + 1
    /\ UNCHANGED <<num_records, clusters, existing_blocos, max_block_size,
                   min_block_size, start_block_num, cluster_records,
                   standalone_records, seed_k, place_k, stand_k, Bloco, objs, env>>

----------------------------------------------------------------------------
(* distribute_into_blocks: second balancing pass and removal of empty blocks
   (lines 777-818) *)

\* lines 794-799: no record of block b_idx2 has its cluster in block_clusters[b_idx1]
CanConsolidate(st, b_idx1, b_idx2) ==
    \A k \in DOMAIN st.bl[b_idx2] :
        LET cluster_id == record_cluster(st.bl[b_idx2][k])
        IN ~ (Truthy(cluster_id) /\ cluster_id \in st.bc[b_idx1])

\* lines 803-810: every record of b_idx2 goes to b_idx1
Consolidate(st, b_idx1, b_idx2) ==
    LET moved == {record_cluster(st.bl[b_idx2][k]) : k \in DOMAIN st.bl[b_idx2]}
        cids == {c \in moved : Truthy(c)}
    IN [bl |-> [st.bl EXCEPT ![b_idx1] = @ \o st.bl[b_idx2], ![b_idx2] = <<>>],
        bc |-> [st.bc EXCEPT ![b_idx1] = @ \cup cids, ![b_idx2] = @ \ cids]]

RECURSIVE MergeInto(_, _, _)
\* the inner loop of lines 784-814 over small_blocks[i+1:]
MergeInto(st, b_idx1, others) ==
    IF others = <<>> THEN st
    ELSE LET b_idx2 == Head(others)
         IN IF Len(st.bl[b_idx2]) = 0
            THEN MergeInto(st, b_idx1, Tail(others))
            ELSE IF Len(st.bl[b_idx1]) + Len(st.bl[b_idx2]) > max_block_size
            THEN MergeInto(st, b_idx1, Tail(others))
            ELSE IF ~ CanConsolidate(st, b_idx1, b_idx2)
            THEN MergeInto(st, b_idx1, Tail(others))
            ELSE LET st2 == Consolidate(st, b_idx1, b_idx2)
                 IN IF Len(st2.bl[b_idx1]) >= min_block_size THEN st2
                    ELSE MergeInto(st2, b_idx1, Tail(others))

RECURSIVE MergeLoop(_, _)
\* the outer loop of lines 780-814
MergeLoop(st, small_blocks) ==
    IF small_blocks = <<>> THEN st
    ELSE LET b_idx1 == Head(small_blocks)
         IN IF Len(st.bl[b_idx1]) = 0
            THEN MergeLoop(st, Tail(small_blocks))
            ELSE MergeLoop(MergeInto(st, b_idx1, Tail(small_blocks)), Tail(small_blocks))

\* the blocks when line 817 drops nothing
KeepEveryBlock(bl) == bl

\* line 817: the empty blocks are dropped
NonEmptyBlocks(bl) == SelectSeq(bl, LAMBDA b : Len(b) > 0)

\* line 818: the first len(blocks) entries of block_clusters are kept
FirstEntries(bc, count) == SubSeq(bc, 1, count)

MergeSmallBlocks ==
    /\ pc = "pass2"
    /\ LET small_blocks == SmallBlocks(blocks)
           st0 == [bl |-> blocks, bc |-> block_clusters]
           st == IF Len(small_blocks) > 1 THEN MergeLoop(st0, small_blocks) ELSE st0
       IN /\ blocks' = NonEmptyBlocks(st.bl)
          /\ block_clusters' = FirstEntries(st.bc, Len(NonEmptyBlocks(st.bl)))
    /\ pc' = "assign"
    /\ UNCHANGED <<num_records, clusters, existing_blocos, max_block_size,
                   min_block_size, start_block_num, cluster_records,
                   standalone_records, seed_k, place_k, stand_k, iteration,
                   last_changed, Bloco, objs, env>>

----------------------------------------------------------------------------
(* distribute_into_blocks: fallback and numbering (lines 822-850) *)

RECURSIVE ForceAssign(_, _)
\* lines 826-833: a record in no block goes to the last block or to a new one
ForceAssign(bl, missing) ==
    IF missing = <<>> THEN bl
    ELSE LET idx == Head(missing)
         IN IF Len(bl) > 0 /\ Len(bl[Len(bl)]) < max_block_size
            THEN ForceAssign([bl EXCEPT ![Len(bl)] = Append(@, idx)], Tail(missing))
            ELSE ForceAssign(Append(bl, <<idx>>), Tail(missing))

\* the records that are in no block (line 827)
Unassigned(bl) ==
    SetToSeq({i \in 0 .. num_records - 1 : ~ \E b \in DOMAIN bl : i \in Range(bl[b])})

\* lines 837-839: the number of the last block that lists idx; None when none does
NumberOf(bl, idx) ==
    LET holding == {b \in DOMAIN bl : idx \in Range(bl[b])}
    IN IF holding = {} THEN None
       ELSE (CHOOSE b \in holding : \A o \in holding : o <= b) + start_block_num - 1

\* lines 842-850: a record still without 'Bloco' gets the number of the last block
FinalBloco(bl, idx) ==
    IF NumberOf(bl, idx) # None THEN NumberOf(bl, idx)
    ELSE IF Len(bl) > 0 THEN Len(bl) + start_block_num - 1
    ELSE start_block_num

AssignBlockNumbers ==
    /\ pc = "assign"
    /\ LET bl == ForceAssign(blocks, Unassigned(blocks))
       IN /\ blocks' = bl
          /\ block_clusters' = PadTo(block_clusters, Len(bl), {})
          /\ Bloco' = [idx \in 0 .. num_records - 1 |-> FinalBloco(bl, idx)]
          /\ heap' = [o \in DOMAIN heap |->
                         IF \E k \in DOMAIN records_with_blocks : records_with_blocks[k] = o
                         THEN [heap[o] EXCEPT !.Bloco =
                                 FinalBloco(bl, (CHOOSE k \in DOMAIN records_with_blocks :
                                                    records_with_blocks[k] = o) - 1)]
                         ELSE heap[o]]
    /\ pc' = "done"
    /\ UNCHANGED <<num_records, clusters, existing_blocos, max_block_size,
                   min_block_size, start_block_num, cluster_records,
                   standalone_records, seed_k, place_k, stand_k, iteration,
                   last_changed, records_in, records_with_blocks, env>>

----------------------------------------------------------------------------
(* Specifications of the distributor *)

DistNext ==
    \/ ReturnEmpty
    \/ SeedSkip
    \/ SeedExisting
    \/ SeedRaises
    \/ PlaceClusterMember
    \/ PlaceStandalone
    \/ EnterBalancing
    \/ RebalanceIteration
    \/ MergeSmallBlocks
    \/ AssignBlockNumbers

Init ==
    /\ dd = <<>>
    /\ sm = <<>>
    /\ ic = <<>>
    /\ ab = <<>>
    /\ \E n \in 0 .. MaxRecords :
          \E cl \in ClusterMaps(n), ex \in ExistingMaps(n),
             sizes \in BlockSizes, start \in StartBlockNums :
                DistInit(n, cl, ex, sizes, start)

Next == DistNext

Spec == Init /\ [][Next]_vars

\* the cluster-free runs: no cluster map, no pre-existing assignment
PlainInit ==
    /\ dd = <<>>
    /\ sm = <<>>
    /\ ic = <<>>
    /\ ab = <<>>
    /\ \E n \in 0 .. MaxPlainRecords, sizes \in PlainBlockSizes :
          DistInit(n, <<>>, <<>>, sizes, 1)

PlainNext ==
    \/ ReturnEmpty
    \/ PlaceStandalone
    \/ EnterBalancing
    \/ RebalanceIteration
    \/ MergeSmallBlocks
    \/ AssignBlockNumbers

PlainSpec == PlainInit /\ [][PlainNext]_vars

----------------------------------------------------------------------------
(* Normalizer.  A handle is a sequence of characters, where the prefixes the
   code strips ("https://", "www.instagram.com/", "instagram.com/") are single
   symbols; an address is a sequence of whitespace-separated tokens, a
   punctuation mark being a token of its own. *)

\* str.lower() on one symbol
LowerSym(c) ==
    CASE c = "F" -> "f"
      [] c = "B" -> "b"
      [] c = "Rua" -> "rua"
      [] c = "R" -> "r"
      [] c = "Augusta" -> "augusta"
      [] c = "Avenida" -> "avenida"
      [] c = "Paulista" -> "paulista"
      [] c = "S/N" -> "s/n"
      [] OTHER -> c

\* a normalisation that keeps the letter case
LowerUnchanged(s) == s

Lower(s) == [i \in DOMAIN s |-> LowerSym(s[i])]

RECURSIVE LStrip(_)
LStrip(s) == IF s # <<>> /\ Head(s) = " " THEN LStrip(Tail(s)) ELSE s

RECURSIVE RStrip(_)
RStrip(s) ==
    IF s # <<>> /\ s[Len(s)] = " " THEN RStrip(SubSeq(s, 1, Len(s) - 1)) ELSE s

\* str.strip()
Strip(s) == LStrip(RStrip(s))

\* re.sub('^prefix', '', s)
StripPrefix(s, prefix) == IF s # <<>> /\ Head(s) = prefix THEN Tail(s) ELSE s

\* str.replace(c, '')
Without(s, chars) == SelectSeq(s, LAMBDA c : c \notin chars)

RECURSIVE TakeToken(_)
\* the characters up to the first blank
TakeToken(s) ==
    IF s = <<>> \/ Head(s) = " " THEN <<>> ELSE <<Head(s)>> \o TakeToken(Tail(s))

\* normalize_instagram up to line 167: stripped, lower-cased, prefixes and
\* parentheses removed
HandleBody(instagram) ==
    LET a == Lower(Strip(instagram))
        b == StripPrefix(a, "https://")
        c == StripPrefix(b, "www.instagram.com/")
        d == StripPrefix(c, "instagram.com/")
        e == StripPrefix(d, "@")
    IN Without(e, {"(", ")"})

\* line 171: split()[0] of a string of blanks only raises IndexError
normalize_instagram_raises(instagram) ==
    /\ instagram # <<>>
    /\ " " \in Range(HandleBody(instagram))
    /\ LStrip(HandleBody(instagram)) = <<>>

normalize_instagram(instagram) ==
    IF instagram = <<>> THEN <<>>
    ELSE LET normalized == HandleBody(instagram)
         IN IF " " \in Range(normalized)
            THEN Strip(TakeToken(LStrip(normalized)))
            ELSE Strip(normalized)

\* the street-type table of lines 190-202, applied to one lower-cased word
Abbreviation(w) ==
    CASE w = "rua" -> "r"
      [] w = "avenida" -> "av"
      [] w = "alameda" -> "al"
      [] w = "rodovia" -> "rod"
      [] w = "estrada" -> "est"
      [] w = "praca" -> "pc"
      [] w = "travessa" -> "tv"
      [] w = "largo" -> "lg"
      [] w = "via" -> "v"
      [] w = "passagem" -> "psg"
      [] OTHER -> w

\* re.sub(r'[^\w\s]', '', token): what is left of one token
WordChars(w) ==
    CASE w \in {",", ".", "-"} -> ""
      [] w = "s/n" -> "sn"
      [] w = "01305-000" -> "01305000"
      [] OTHER -> w

\* normalize_address_street: lower case, abbreviations, punctuation removed,
\* whitespace collapsed (the words that are left, in order)
normalize_address_street(street) ==
    LET lowered == Lower(street)
        abbreviated == [i \in DOMAIN lowered |-> Abbreviation(lowered[i])]
        cleaned == [i \in DOMAIN abbreviated |-> WordChars(abbreviated[i])]
    IN SelectSeq(cleaned, LAMBDA w : w # "")

\* tokens matching \b\d{5}-?\d{3}\b
IsCep(w) == w \in {"01305-000", "01305000", "04567-000"}

\* tokens matching \b\d{1,6}[a-z]?\b (case-insensitive)
IsNumber(w) == w \in {"500", "12", "500a", "500A"}

UpperNumber(w) == IF w = "500a" THEN "500A" ELSE w

\* the marker of lines 235 and 239: s/n (case-insensitive); "sem numero" has
\* no token in the samples
HasNoNumberMarker(address) == \E i \in DOMAIN address : LowerSym(address[i]) = "s/n"

NoNumber == "None"

\* extract_address_number: the first number outside a CEP, None under a
\* "no number" marker or without any number
extract_address_number(address) ==
    LET address_clean == SelectSeq(address, LAMBDA w : ~ IsCep(w))
        numbers == SelectSeq(address_clean, IsNumber)
    IN IF numbers # <<>> /\ ~ HasNoNumberMarker(address)
       THEN UpperNumber(Head(numbers))
       ELSE NoNumber

\* extract_cep(address) or "": the digits of the first CEP
extract_cep(address) ==
    LET ceps == SelectSeq(address, IsCep)
    IN IF ceps = <<>> THEN "" ELSE WordChars(Head(ceps))

\* has_historical_data, the three columns being present
has_historical_data(record) ==
    record.date # "" \/ record.persona # "" \/ record.phrase # ""

----------------------------------------------------------------------------
(* SimilarityEngine: calculate_similarity (lines 263-272), which is
   difflib.SequenceMatcher(None, a, b).ratio() on the lower-cased, stripped
   strings.  A string is a sequence of characters.  Positions are 1-based and
   windows are closed: Python's window [alo, ahi) is alo + 1 .. ahi here.  No
   element is junk (isjunk is None, and the popularity heuristic needs 200
   elements).  A score is the pair <<numerator, denominator>> of the ratio. *)

\* longest string of the similarity runs
MaxSimLen == 3

\* characters of the similarity runs
SimAlphabet == {"f", "o", "b", "F", " "}

RECURSIVE RunLength(_, _, _, _, _, _)
\* j2len of find_longest_match: the length of the common run that ends at
\* a[i], b[j] and lies inside the window
RunLength(a, b, i, j, alo, blo) ==
    IF i < alo \/ j < blo THEN 0
    ELSE IF a[i] # b[j] THEN 0
    ELSE 1 + RunLength(a, b, i - 1, j - 1, alo, blo)

\* the choice of find_longest_match among the run lengths k of a window:
\* <<i, j, size>> of the longest block; of several, the one met first while i
\* and then j ascend
LongestBlock(k, alo, blo) ==
    LET sizes == {k[e] : e \in DOMAIN k} \cup {0}
        bestsize == CHOOSE x \in sizes : \A y \in sizes : y <= x
        longest == {e \in DOMAIN k : k[e] = bestsize}
        best == CHOOSE e \in longest :
                    \A f \in longest : e[1] < f[1] \/ (e[1] = f[1] /\ e[2] <= f[2])
    IN IF bestsize = 0 THEN <<alo, blo, 0>>
       ELSE <<best[1] - bestsize + 1, best[2] - bestsize + 1, bestsize>>

\* SequenceMatcher.find_longest_match on the window alo .. ahi, blo .. bhi
find_longest_match(a, b, alo, ahi, blo, bhi) ==
    CHOOSE m \in {LongestBlock(k, alo, blo) :
                     k \in {[e \in (alo .. ahi) \X (blo .. bhi) |->
                               RunLength(a, b, e[1], e[2], alo, blo)]}} : TRUE

RECURSIVE MatchedSize(_, _, _, _, _, _)
\* SequenceMatcher.get_matching_blocks, summed: the size of the longest block
\* of the window plus what is matched to its left and to its right
MatchedSize(a, b, alo, ahi, blo, bhi) ==
    IF alo > ahi \/ blo > bhi THEN 0
    ELSE LET rest(m) ==
                 IF m[3] = 0 THEN 0
                 ELSE m[3]
                      + MatchedSize(a, b, alo, m[1] - 1, blo, m[2] - 1)
                      + MatchedSize(a, b, m[1] + m[3], ahi, m[2] + m[3], bhi)
         IN CHOOSE size \in {rest(m) : m \in {find_longest_match(a, b, alo, ahi, blo, bhi)}} :
                TRUE

\* SequenceMatcher.ratio: 2.0 * matches / length, 1.0 for two empty sequences
ratio(a, b) ==
    IF Len(a) + Len(b) = 0 THEN <<1, 1>>
    ELSE <<2 * MatchedSize(a, b, 1, Len(a), 1, Len(b)), Len(a) + Len(b)>>

calculate_similarity(str1, str2) ==
    IF str1 = <<>> \/ str2 = <<>> THEN <<0, 1>>
    ELSE ratio(Strip(Lower(str1)), Strip(Lower(str2)))

\* sim >= percent / 100
AtLeast(sim, percent) == sim[1] * 100 >= percent * sim[2]

SimStrings == UNION {[1 .. n -> SimAlphabet] : n \in 0 .. MaxSimLen}

\* nothing of distribute_into_blocks is running
DistIdle == DistInit(0, <<>>, <<>>, <<1, 1>>, 1)

SimInit ==
    /\ \E str1, str2 \in SimStrings :
          sm = [pc |-> "call", str1 |-> str1, str2 |-> str2,
                forward |-> <<0, 1>>, backward |-> <<0, 1>>]
    /\ dd = <<>>
    /\ ic = <<>>
    /\ ab = <<>>
    /\ DistIdle

\* calculate_similarity(str1, str2)
SimilarityCall ==
    /\ sm.pc = "call"
    /\ sm' = [sm EXCEPT !.pc = "mirror",
                        !.forward = calculate_similarity(sm.str1, sm.str2)]
    /\ UNCHANGED <<dvars, dd, ic, ab>>

\* calculate_similarity(str2, str1)
SimilarityMirrorCall ==
    /\ sm.pc = "mirror"
    /\ sm' = [sm EXCEPT !.pc = "done",
                        !.backward = calculate_similarity(sm.str2, sm.str1)]
    /\ UNCHANGED <<dvars, dd, ic, ab>>

SimNext ==
    \/ SimilarityCall
    \/ SimilarityMirrorCall

SimSpec == SimInit /\ [][SimNext]_vars

----------------------------------------------------------------------------
(* Deduplicator.  A record is [row, instagram, address, date, persona,
   phrase]; row is the position the record had in the ingested list and is
   read by no operation.  Python's idx is the position minus one, so the
   "#idx+1" of an audit line is the position itself. *)

\* the positions of a list whose key is k, ascending (the list instagram_map[k])
PositionsWithKey(keys, k) == SetToSeq({i \in DOMAIN keys : keys[i] = k})

\* the first position of every key that takes part, ascending: the order in
\* which the dict of groups was filled and is iterated
GroupHeads(keys, takes_part) ==
    SetToSeq({i \in DOMAIN keys :
                 /\ takes_part[i]
                 /\ \A j \in DOMAIN keys : (j < i /\ takes_part[j]) => keys[j] # keys[i]})

\* the keep decision without the history priority
KeptIndexFirst(records, indices) == Head(indices)

\* lines 395-403 / 486-493 and 418 / 507: the position that is kept
KeptIndex(records, indices) ==
    LET with_history == SelectSeq(indices, LAMBDA i : has_historical_data(records[i]))
    IN IF with_history # <<>> THEN Head(with_history) ELSE Head(indices)

\* an audit entry whose removed list is the whole group (indices for the
\* filtered list of lines 419 / 508)
AuditEntryWholeGroup(records, indices, nome, cep) ==
    LET kept_idx == KeptIndex(records, indices)
    IN [criterio |-> [nome |-> nome, cep |-> cep],
        linha_mantida |-> kept_idx,
        linhas_removidas |-> indices,
        justificativa |->
            IF \E k \in DOMAIN indices : has_historical_data(records[indices[k]])
            THEN "mantido por prioridade de historico (Data/Persona/Frase)"
            ELSE "mantido por ordem original"]

\* the audit entry of lines 410-415, 424-429, 500-505, 513-518
AuditEntry(records, indices, nome, cep) ==
    LET kept_idx == KeptIndex(records, indices)
    IN [criterio |-> [nome |-> nome, cep |-> cep],
        linha_mantida |-> kept_idx,
        linhas_removidas |-> SelectSeq(indices, LAMBDA i : i # kept_idx),
        justificativa |->
            IF \E k \in DOMAIN indices : has_historical_data(records[indices[k]])
            THEN "mantido por prioridade de historico (Data/Persona/Frase)"
            ELSE "mantido por ordem original"]

\* a pass that drops only the first duplicate of a group (indices[1] for indices[1:])
DiscardedOnlyFirst(records, groups) ==
    UNION {{Head(SelectSeq(groups[g], LAMBDA i : i # KeptIndex(records, groups[g])))} :
              g \in {h \in DOMAIN groups : Len(groups[h]) > 1}}

\* the positions a pass drops: every member of a group of two or more but the kept one
Discarded(records, groups) ==
    UNION {Range(groups[g]) \ {KeptIndex(records, groups[g])} :
              g \in {h \in DOMAIN groups : Len(groups[h]) > 1}}

\* the entries of a pass: one per group of two or more, in group order
AuditOf(records, groups, nome, ceps) ==
    LET multi == SelectSeq([g \in DOMAIN groups |-> g], LAMBDA g : Len(groups[g]) > 1)
    IN [k \in DOMAIN multi |-> AuditEntry(records, groups[multi[k]], nome, ceps[multi[k]])]

KeepOnly(records, dropped) ==
    LET kept_indices == SetToSeq(DOMAIN records \ dropped)
    IN [k \in DOMAIN kept_indices |-> records[kept_indices[k]]]

\* the handle pass grouping by the handle as written, not normalized
deduplicate_by_instagram_raw(records) ==
    LET keys == [i \in DOMAIN records |-> records[i].instagram]
        takes_part == [i \in DOMAIN records |-> keys[i] # <<>>]
        heads == GroupHeads(keys, takes_part)
        instagram_map == [g \in DOMAIN heads |->
                             SelectSeq(PositionsWithKey(keys, keys[heads[g]]),
                                       LAMBDA i : takes_part[i])]
        ceps == [g \in DOMAIN heads |-> ""]
    IN [kept |-> KeepOnly(records, Discarded(records, instagram_map)),
        audit |-> AuditOf(records, instagram_map, "Instagram identico", ceps)]

\* deduplicate_by_instagram (lines 372-434)
deduplicate_by_instagram(records) ==
    LET keys == [i \in DOMAIN records |-> normalize_instagram(records[i].instagram)]
        takes_part == [i \in DOMAIN records |-> keys[i] # <<>>]
        heads == GroupHeads(keys, takes_part)
        instagram_map == [g \in DOMAIN heads |->
                             SelectSeq(PositionsWithKey(keys, keys[heads[g]]),
                                       LAMBDA i : takes_part[i])]
        ceps == [g \in DOMAIN heads |-> ""]
    IN [kept |-> KeepOnly(records, Discarded(records, instagram_map)),
        audit |-> AuditOf(records, instagram_map, "Instagram identico", ceps)]

\* the grouping without the test of line 465 (records without number take part)
AddressEligibleAnyNumber(record) ==
    /\ record.address # <<>>
    /\ normalize_address_street(record.address) # <<>>

\* lines 460-470: the record takes part in the address grouping
AddressEligible(record) ==
    /\ record.address # <<>>
    /\ extract_address_number(record.address) # NoNumber
    /\ normalize_address_street(record.address) # <<>>

\* a key that ignores the CEP: the street base without its CEP digits, the number
AddressKeyWithoutCep(record) ==
    <<SelectSeq(normalize_address_street(record.address),
                LAMBDA w : w # extract_cep(record.address)),
      extract_address_number(record.address),
      "">>

\* line 475: key = (logradouro_base, number, cep)
AddressKey(record) ==
    <<normalize_address_street(record.address),
      extract_address_number(record.address),
      extract_cep(record.address)>>

\* deduplicate_by_address (lines 454-523)
deduplicate_by_address(records) ==
    LET keys == [i \in DOMAIN records |-> AddressKey(records[i])]
        takes_part == [i \in DOMAIN records |-> AddressEligible(records[i])]
        heads == GroupHeads(keys, takes_part)
        address_map == [g \in DOMAIN heads |->
                           SelectSeq(PositionsWithKey(keys, keys[heads[g]]),
                                     LAMBDA i : takes_part[i])]
        ceps == [g \in DOMAIN heads |-> keys[heads[g]][3]]
    IN [kept |-> KeepOnly(records, Discarded(records, address_map)),
        audit |-> AuditOf(records, address_map,
                          "Endereco Estrito (tipo+base+numero)", ceps)]

----------------------------------------------------------------------------
(* The deduplication pipeline (process_restaurants_csv, lines 1208-1232):
   the handle pass, then the strict-address pass on its survivors; and a
   second run of both on the survivors of the first. *)

\* largest number of ingested records of the deduplication runs
MaxDedupRecords == 3

Handles ==
    [foo_at    |-> <<"@", "F", "o", "o">>,
     foo_blank |-> <<"f", "o", "o", " ">>,
     bar_url   |-> <<"https://", "www.instagram.com/", "B", "a", "r">>,
     bar_x     |-> <<"b", "a", "r", " ", "x">>,
     empty     |-> <<>>,
     parens    |-> <<"(", ")">>,
     blank     |-> <<"(", " ", ")">>]

Addresses ==
    [empty      |-> <<>>,
     augusta    |-> <<"Rua", "Augusta", ",", "500">>,
     augusta_lc |-> <<"rua", "augusta", "500">>,
     augusta_r  |-> <<"R", ".", "Augusta", ",", "500">>,
     with_cep   |-> <<"R", ".", "Augusta", ",", "500", "-", "01305-000">>,
     with_cep8  |-> <<"rua", "augusta", "500", "01305000">>,
     no_number  |-> <<"Rua", "Augusta", "S/N">>,
     marked     |-> <<"Rua", "Augusta", ",", "500", "s/n">>,
     street     |-> <<"Rua", "Augusta">>,
     comma      |-> <<",">>,
     paulista   |-> <<"Avenida", "Paulista", "500">>]

Sample(h, a, date, persona, phrase) ==
    [row |-> 0, instagram |-> h, address |-> a,
     date |-> date, persona |-> persona, phrase |-> phrase]

\* the rows the ingested lists are drawn from
SampleRows ==
    {Sample(Handles.foo_at,    Addresses.augusta,    "", "", ""),
     Sample(Handles.foo_blank, Addresses.paulista,   "2024-01-01", "", ""),
     Sample(Handles.bar_url,   Addresses.augusta_lc, "", "", ""),
     Sample(Handles.empty,     Addresses.augusta_r,  "", "", "oi"),
     Sample(Handles.parens,    Addresses.no_number,  "", "", ""),
     Sample(Handles.bar_x,     Addresses.street,     "", "ana", ""),
     Sample(Handles.empty,     Addresses.with_cep,   "", "", ""),
     Sample(Handles.empty,     Addresses.with_cep8,  "", "", ""),
     Sample(Handles.empty,     Addresses.marked,     "", "", ""),
     Sample(Handles.foo_at,    Addresses.empty,      "", "", ""),
     Sample(Handles.blank,     Addresses.comma,      "", "", ""),
     Sample(Handles.parens,    Addresses.no_number,  "2024-01-01", "", "")}

\* an ingested list: the chosen sample rows, numbered by position
Ingested(f) == [i \in DOMAIN f |-> [f[i] EXCEPT !.row = i]]

NoResult == [kept |-> <<>>, audit |-> <<>>]

DedupInit ==
    /\ \E n \in 0 .. MaxDedupRecords :
          \E f \in [1 .. n -> SampleRows] :
             dd = [pc |-> "ingested", records |-> Ingested(f),
                   pass_a |-> NoResult, pass_b |-> NoResult,
                   again_a |-> NoResult, again_b |-> NoResult]
    /\ sm = <<>>
    /\ ic = <<>>
    /\ ab = <<>>
    /\ DistInit(0, <<>>, <<>>, <<1, 1>>, 1)

\* deduplicate_by_instagram on the ingested list
DedupInstagram ==
    /\ dd.pc = "ingested"
    /\ \A i \in DOMAIN dd.records : ~ normalize_instagram_raises(dd.records[i].instagram)
    /\ dd' = [dd EXCEPT !.pc = "pass_a", !.pass_a = deduplicate_by_instagram(dd.records)]
    /\ UNCHANGED <<dvars, sm, ic, ab>>

\* normalize_instagram raises on a handle of the list: the pass ends with IndexError
DedupInstagramRaises ==
    /\ dd.pc = "ingested"
    /\ \E i \in DOMAIN dd.records : normalize_instagram_raises(dd.records[i].instagram)
    /\ dd' = [dd EXCEPT !.pc = "raised"]
    /\ UNCHANGED <<dvars, sm, ic, ab>>

\* deduplicate_by_address on the survivors of the handle pass
DedupAddress ==
    /\ dd.pc = "pass_a"
    /\ dd' = [dd EXCEPT !.pc = "pass_b", !.pass_b = deduplicate_by_address(dd.pass_a.kept)]
    /\ UNCHANGED <<dvars, sm, ic, ab>>

\* the Deduplicator once more, on its own output: handle pass
RerunInstagram ==
    /\ dd.pc = "pass_b"
    /\ dd' = [dd EXCEPT !.pc = "again_a",
                        !.again_a = deduplicate_by_instagram(dd.pass_b.kept)]
    /\ UNCHANGED <<dvars, sm, ic, ab>>

\* the Deduplicator once more, on its own output: strict-address pass
RerunAddress ==
    /\ dd.pc = "again_a"
    /\ dd' = [dd EXCEPT !.pc = "again_b",
                        !.again_b = deduplicate_by_address(dd.again_a.kept)]
    /\ UNCHANGED <<dvars, sm, ic, ab>>

DedupNext ==
    \/ DedupInstagram
    \/ DedupInstagramRaises
    \/ DedupAddress
    \/ RerunInstagram
    \/ RerunAddress

DedupSpec == DedupInit /\ [][DedupNext]_vars

----------------------------------------------------------------------------
(* ClusterIdentifier: identify_clusters (lines 526-603).  A record is
   [name, instagram, address]: the name a sequence of characters, the handle
   and the address as in the Normalizer.  Record indices are Python's
   0 .. n-1; records[i + 1] is Python's records[i]. *)

\* largest number of records handed to identify_clusters
MaxClusterRecords == 4

\* lines 557-566: strict address, or the same street base where a number lacks
AddressRule(record_i, record_j) ==
    /\ record_i.address # <<>>
    /\ record_j.address # <<>>
    /\ LET number_i == extract_address_number(record_i.address)
           number_j == extract_address_number(record_j.address)
           logradouro_i == normalize_address_street(record_i.address)
           logradouro_j == normalize_address_street(record_j.address)
       IN \/ /\ number_i # NoNumber
             /\ number_j # NoNumber
             /\ number_i = number_j
             /\ logradouro_i = logradouro_j
          \/ /\ number_i = NoNumber \/ number_j = NoNumber
             /\ logradouro_i = logradouro_j
             /\ logradouro_i # <<>>

\* lines 569-572: name similarity >= 0.90
NameRule(record_i, record_j) ==
    /\ Strip(record_i.name) # <<>>
    /\ Strip(record_j.name) # <<>>
    /\ AtLeast(calculate_similarity(Strip(record_i.name), Strip(record_j.name)), 90)

\* lines 575-578: handle similarity >= 0.90
HandleRule(record_i, record_j) ==
    LET instagram_i == normalize_instagram(record_i.instagram)
        instagram_j == normalize_instagram(record_j.instagram)
    IN /\ instagram_i # <<>>
       /\ instagram_j # <<>>
       /\ AtLeast(calculate_similarity(instagram_i, instagram_j), 90)

\* lines 581-585: name >= 0.85 and handle >= 0.85 together
CombinedRule(record_i, record_j) ==
    LET instagram_i == normalize_instagram(record_i.instagram)
        instagram_j == normalize_instagram(record_j.instagram)
    IN /\ Strip(record_i.name) # <<>>
       /\ Strip(record_j.name) # <<>>
       /\ instagram_i # <<>>
       /\ instagram_j # <<>>
       /\ AtLeast(calculate_similarity(Strip(record_i.name), Strip(record_j.name)), 85)
       /\ AtLeast(calculate_similarity(instagram_i, instagram_j), 85)

\* same_cluster of lines 554-585, record_i being the later record
same_cluster(record_i, record_j) ==
    \/ AddressRule(record_i, record_j)
    \/ NameRule(record_i, record_j)
    \/ HandleRule(record_i, record_j)
    \/ CombinedRule(record_i, record_j)

Names ==
    [pizza  |-> <<"p", "i", "z", "z", "a">>,
     pizzas |-> <<"p", "i", "z", "z", "a", "s">>,
     izzas  |-> <<"i", "z", "z", "a", "s">>,
     kebab  |-> <<"k", "e", "b", "a", "b">>,
     wok    |-> <<"w", "o", "k">>,
     woks   |-> <<"w", "o", "k", "s", " ">>]

\* a handle that is 0.857 similar to "bar"
BarsHandle == <<"@", "b", "a", "r", "s">>

Named(name, h, a) == [name |-> name, instagram |-> h, address |-> a]

\* the rows the clustered lists are drawn from: every rule has a pair
\* that only it relates, and pizza - pizzas - izzas is a chain
ClusterRows ==
    {Named(Names.pizza,  Handles.foo_at,    Addresses.street),
     Named(Names.pizzas, Handles.empty,     Addresses.empty),
     Named(Names.izzas,  Handles.empty,     Addresses.augusta),
     Named(Names.kebab,  Handles.foo_blank, Addresses.paulista),
     Named(Names.wok,    Handles.bar_url,   Addresses.augusta_r),
     Named(Names.woks,   BarsHandle,        Addresses.street)}

\* the call identify_clusters(records): the state before the loop of line 539
ClusterStart(records) ==
    [pc |-> "compare", records |-> records, i |-> 0, clusters |-> <<>>,
     record_to_cluster |-> <<>>, next_cluster_id |-> 1, result |-> <<>>]

\* the cluster of the last earlier record that matches (a loop without the
\* break of line 589)
JoinedClusterOfLast(records, record_to_cluster, i) ==
    LET matching == {j \in 0 .. i - 1 : same_cluster(records[i + 1], records[j + 1])}
    IN IF matching = {} THEN None
       ELSE record_to_cluster[(CHOOSE j \in matching : \A o \in matching : o <= j) + 1]

\* lines 587-589: the cluster of the first earlier record that matches, None
\* when there is none
JoinedCluster(records, record_to_cluster, i) ==
    LET matching == {j \in 0 .. i - 1 : same_cluster(records[i + 1], records[j + 1])}
    IN IF matching = {} THEN None
       ELSE record_to_cluster[(CHOOSE j \in matching : \A o \in matching : j <= o) + 1]

\* one turn of the loop of line 539: record i joins a cluster or opens one
CompareRecord ==
    /\ ic # <<>>
    /\ ic.pc = "compare"
    /\ ic.i < Len(ic.records)
    /\ \E joined \in {JoinedCluster(ic.records, ic.record_to_cluster, ic.i)} :
          LET cluster_id == IF joined = None THEN ic.next_cluster_id ELSE joined
          IN ic' = [ic EXCEPT
                       !.i = @ + 1,
                       !.next_cluster_id = IF joined = None THEN @ + 1 ELSE @,
                       !.clusters = IF joined = None
                                    THEN Append(@, <<ic.i>>)
                                    ELSE [@ EXCEPT ![cluster_id] = Append(@, ic.i)],
                       !.record_to_cluster = Append(@, cluster_id)]
    /\ UNCHANGED <<dvars, dd, sm, ab>>

\* a return that keeps the clusters of one record
AllClusters(cl) == [cid \in DOMAIN cl |-> Range(cl[cid])]

\* line 603: the clusters of more than one record, cluster_id -> members
ReturnedClusters(cl) ==
    [cid \in {c \in DOMAIN cl : Len(cl[c]) > 1} |-> Range(cl[cid])]

ReturnClusters ==
    /\ ic # <<>>
    /\ ic.pc = "compare"
    /\ ic.i = Len(ic.records)
    /\ ic' = [ic EXCEPT !.pc = "returned", !.result = ReturnedClusters(ic.clusters)]
    /\ UNCHANGED <<dvars, dd, sm, ab>>

\* distribute_into_blocks has not been called
NotCalled ==
    /\ num_records = 0
    /\ clusters = <<>>
    /\ existing_blocos = <<>>
    /\ min_block_size = 5
    /\ max_block_size = 10
    /\ start_block_num = 1
    /\ cluster_records = <<>>
    /\ standalone_records = <<>>
    /\ blocks = <<>>
    /\ block_clusters = <<>>
    /\ seed_k = 0
    /\ place_k = 0
    /\ stand_k = 0
    /\ iteration = 0
    /\ last_changed = FALSE
    /\ Bloco = <<>>
    /\ records_in = <<>>
    /\ records_with_blocks = <<>>
    /\ heap = <<>>
    /\ pc = "idle"

\* the call distribute_into_blocks(records, clusters, ...) up to line 656
CallDistribute(n, cl, ex, sizes, start) ==
    /\ pc = "idle"
    /\ num_records' = n
    /\ records_in' = [k \in 1 .. n |-> InputObject(k - 1)]
    /\ records_with_blocks' = [k \in 1 .. n |-> CopiedDict(n, k - 1)]
    /\ heap' = InitialHeap(n, ex)
    /\ clusters' = cl
    /\ existing_blocos' = ex
    /\ min_block_size' = sizes[1]
    /\ max_block_size' = sizes[2]
    /\ start_block_num' = start
    /\ cluster_records' = InitialClusterRecords(n, cl)
    /\ standalone_records' = InitialStandalone(n, cl)
    /\ blocks' = <<>>
    /\ block_clusters' = <<>>
    /\ seed_k' = 0
    /\ place_k' = 0
    /\ stand_k' = 0
    /\ iteration' = 0
    /\ last_changed' = FALSE
    /\ Bloco' = [i \in 0 .. n - 1 |-> None]
    /\ pc' = "distribute"

\* pairs <<min_block_size, max_block_size>> of the runs that cluster and distribute
ClusterBlockSizes == {<<2, 2>>, <<1, 3>>}

ClusterInit ==
    /\ \E n \in 0 .. MaxClusterRecords :
          \E f \in [1 .. n -> ClusterRows] : ic = ClusterStart(f)
    /\ dd = <<>>
    /\ sm = <<>>
    /\ ab = <<>>
    /\ NotCalled

\* distribute_into_blocks on the clusters identify_clusters returned, without
\* pre-existing assignments (process_restaurants_csv, lines 1244-1254)
DistributeClusters ==
    /\ ic # <<>>
    /\ ic.pc = "returned"
    /\ \E sizes \in ClusterBlockSizes :
          CallDistribute(Len(ic.records), ic.result, <<>>, sizes, 1)
    /\ UNCHANGED env

ClusterNext ==
    \/ CompareRecord
    \/ ReturnClusters
    \/ DistributeClusters
    \/ ReturnEmpty
    \/ PlaceClusterMember
    \/ PlaceStandalone
    \/ EnterBalancing
    \/ RebalanceIteration
    \/ MergeSmallBlocks
    \/ AssignBlockNumbers

ClusterSpec == ClusterInit /\ [][ClusterNext]_vars

----------------------------------------------------------------------------
(* assign_blocks_to_restaurants (lines 1371-1467).  A restaurant is
   [name, instagram_username, bloco], bloco being None when it arrives
   without one. *)

\* largest number of restaurants of one call
MaxRestaurants == 3

\* values of the parameter start_block_num
AssignStartNums == {1, 2}

\* the 'bloco' a restaurant may arrive with
ArrivingBlocos == {None, 1, 2}

RestaurantRows ==
    {[name |-> n, instagram_username |-> <<>>, bloco |-> b] :
        n \in {Names.pizza, Names.pizzas, Names.kebab}, b \in ArrivingBlocos}

AssignInit ==
    /\ \E n \in 0 .. MaxRestaurants :
          \E f \in [1 .. n -> RestaurantRows], start \in AssignStartNums :
             ab = [pc |-> "start", restaurants |-> f, start_block_num |-> start,
                   actual_start_block |-> None, result |-> <<>>]
    /\ dd = <<>>
    /\ sm = <<>>
    /\ ic = <<>>
    /\ NotCalled

\* lines 1395-1396: an empty list is returned as it is
AssignReturnEmpty ==
    /\ ab.pc = "start"
    /\ ab.restaurants = <<>>
    /\ ab' = [ab EXCEPT !.pc = "returned", !.result = ab.restaurants]
    /\ UNCHANGED <<dvars, dd, sm, ic>>

\* lines 1399-1410: the records of the processor, without address
BuiltRecords(restaurants) ==
    [k \in DOMAIN restaurants |->
        Named(restaurants[k].name, restaurants[k].instagram_username, <<>>)]

\* lines 1398-1418: the records are built and identify_clusters is called
BuildRecords ==
    /\ ab.pc = "start"
    /\ ab.restaurants # <<>>
    /\ ic' = ClusterStart(BuiltRecords(ab.restaurants))
    /\ ab' = [ab EXCEPT !.pc = "clustering"]
    /\ UNCHANGED <<dvars, dd, sm>>

\* lines 1421-1425: existing_blocos_map, pairs <<idx, bloco>> in list order
ExistingBlocosMap(restaurants) ==
    LET with == SetToSeq({k \in DOMAIN restaurants : restaurants[k].bloco # None})
    IN [e \in DOMAIN with |-> <<with[e] - 1, restaurants[with[e]].bloco>>]

\* lines 1428-1432: one more than the largest pre-existing number, or the parameter
ActualStartBlock(existing_blocos_map, start) ==
    IF existing_blocos_map # <<>>
    THEN (CHOOSE m \in {existing_blocos_map[e][2] : e \in DOMAIN existing_blocos_map} :
             \A e \in DOMAIN existing_blocos_map : existing_blocos_map[e][2] <= m) + 1
    ELSE start

\* lines 1421-1445: distribute_into_blocks is called with blocks of 5 to 10
DistributeRestaurants ==
    /\ ab.pc = "clustering"
    /\ ic.pc = "returned"
    /\ \E ex \in {ExistingBlocosMap(ab.restaurants)} :
          \E start \in {ActualStartBlock(ex, ab.start_block_num)} :
             /\ CallDistribute(Len(ab.restaurants), ic.result, ex, <<5, 10>>, start)
             /\ ab' = [ab EXCEPT !.pc = "distributing", !.actual_start_block = start]
    /\ UNCHANGED <<dd, sm, ic>>

\* lines 1459-1460: the 'bloco' written on the restaurant at position p
AssignedBloco(restaurant, bloco_atribuido, actual_start_block) ==
    IF bloco_atribuido # None THEN bloco_atribuido
    ELSE IF restaurant.bloco # None /\ restaurant.bloco # 0 THEN restaurant.bloco
    ELSE actual_start_block

\* lines 1448-1467: the restaurants are rebuilt with their block, in list order
AssignReturn ==
    /\ ab.pc = "distributing"
    /\ pc = "done"
    /\ ab' = [ab EXCEPT
                 !.pc = "returned",
                 !.result = [k \in DOMAIN ab.restaurants |->
                               [ab.restaurants[k] EXCEPT
                                   !.bloco = AssignedBloco(ab.restaurants[k],
                                                heap[records_with_blocks[k]].Bloco,
                                                ab.actual_start_block)]]]
    /\ UNCHANGED <<dvars, dd, sm, ic>>

\* the IndexError of distribute_into_blocks is not caught: the call raises
AssignRaises ==
    /\ ab.pc = "distributing"
    /\ pc = "raised"
    /\ ab' = [ab EXCEPT !.pc = "raised"]
    /\ UNCHANGED <<dvars, dd, sm, ic>>

\* the distributor steps a call of assign_blocks_to_restaurants can take: the
\* first pre-existing entry either is absent or raises, so no entry is seeded
AssignNext ==
    \/ AssignReturnEmpty
    \/ BuildRecords
    \/ CompareRecord
    \/ ReturnClusters
    \/ DistributeRestaurants
    \/ SeedRaises
    \/ PlaceClusterMember
    \/ PlaceStandalone
    \/ EnterBalancing
    \/ RebalanceIteration
    \/ MergeSmallBlocks
    \/ AssignBlockNumbers
    \/ AssignReturn
    \/ AssignRaises

AssignSpec == AssignInit /\ [][AssignNext]_vars

----------------------------------------------------------------------------
(* process_restaurants_csv (lines 1187-1264): the rows of the template are
   read into records, the pre-existing block numbers are collected, the two
   dedup passes and identify_clusters run on the records and
   distribute_into_blocks is called on the survivors.  A record is
   [row, name, instagram, address, date, persona, phrase, bloco]; bloco is the
   cell of the "Bloco" column, None when the cell is empty. *)

\* largest number of rows of the template
MaxCsvRecords == 3

\* the cells of the "Bloco" column
CsvBlocoCells == {None, 1, 2}

CsvRow(name, h, a, date) ==
    [row |-> 0, name |-> name, instagram |-> h, address |-> a,
     date |-> date, persona |-> "", phrase |-> "", bloco |-> None]

\* the rows the templates are drawn from, each with every cell of "Bloco"
CsvRows ==
    {[r EXCEPT !.bloco = b] :
        r \in {CsvRow(Names.pizza,  Handles.foo_at,    Addresses.empty,    ""),
               CsvRow(Names.kebab,  Handles.foo_blank, Addresses.empty,    "2024-01-01"),
               CsvRow(Names.pizzas, Handles.bar_url,   Addresses.empty,    ""),
               CsvRow(Names.wok,    Handles.empty,     Addresses.paulista, ""),
               CsvRow(Names.wok,    Handles.blank,     Addresses.empty,    "")},
        b \in CsvBlocoCells}

\* lines 1187-1189: records = df.to_dict("records")
CsvInit ==
    /\ \E n \in 0 .. MaxCsvRecords :
          \E f \in [1 .. n -> CsvRows] :
             dd = [pc |-> "ingested", records |-> Ingested(f),
                   pass_a |-> NoResult, pass_b |-> NoResult,
                   again_a |-> NoResult, again_b |-> NoResult]
    /\ sm = <<>>
    /\ ic = <<>>
    /\ ab = <<>>
    /\ NotCalled

\* lines 1193-1205: existing_blocos_map, pairs <<i, bloco>> in the order of the
\* records that were read
existing_blocos_map(records) ==
    LET with == SetToSeq({k \in DOMAIN records : records[k].bloco # None})
    IN [e \in DOMAIN with |-> <<with[e] - 1, records[with[e]].bloco>>]

\* line 1206
max_existing_bloco(map) ==
    IF map # <<>>
    THEN CHOOSE m \in {map[e][2] : e \in DOMAIN map} :
            \A e \in DOMAIN map : map[e][2] <= m
    ELSE 0

\* lines 1235-1240: identify_clusters on the survivors of both passes
CsvIdentifyClusters ==
    /\ dd.pc = "pass_b"
    /\ ic = <<>>
    /\ ic' = ClusterStart(dd.pass_b.kept)
    /\ UNCHANGED <<dvars, dd, sm, ab>>

\* lines 1244-1254: distribute_into_blocks on the survivors, with the map
\* collected at lines 1193-1205 and blocks of 5 to 10
CsvDistribute ==
    /\ dd.pc = "pass_b"
    /\ ic # <<>>
    /\ ic.pc = "returned"
    /\ \E ex \in {existing_blocos_map(dd.records)} :
          CallDistribute(Len(dd.pass_b.kept), ic.result, ex, <<5, 10>>,
                         IF max_existing_bloco(ex) > 0
                         THEN max_existing_bloco(ex) + 1 ELSE 1)
    /\ UNCHANGED env

\* the steps of process_restaurants_csv: with start_block_num one more than the
\* largest pre-existing number, an entry is skipped (its index is no survivor)
\* or the first one that is not raises, so no entry is seeded
CsvNext ==
    \/ DedupInstagram
    \/ DedupInstagramRaises
    \/ DedupAddress
    \/ CsvIdentifyClusters
    \/ CompareRecord
    \/ ReturnClusters
    \/ CsvDistribute
    \/ ReturnEmpty
    \/ SeedSkip
    \/ SeedRaises
    \/ PlaceClusterMember
    \/ PlaceStandalone
    \/ EnterBalancing
    \/ RebalanceIteration
    \/ MergeSmallBlocks
    \/ AssignBlockNumbers

CsvSpec == CsvInit /\ [][CsvNext]_vars

----------------------------------------------------------------------------
(* Properties of distribute_into_blocks *)

Returned == pc = "done"

\* the records of the call
Records == 0 .. num_records - 1

\* the records that carry a pre-existing assignment
Seeded == {existing_blocos[k][1] : k \in DOMAIN existing_blocos} \cap Records

\* the records of the final partition that carry block number b
BlockMembers(b) == {idx \in Records : Bloco[idx] = b}

\* the block numbers in use in the output
BlockNumbers == {Bloco[idx] : idx \in Records}

\* how many times idx is listed in the blocks
Occurrences(idx) ==
    Cardinality({bk \in {<<b, k>> : b \in DOMAIN blocks, k \in 1 .. num_records} :
                    bk[2] \in DOMAIN blocks[bk[1]] /\ blocks[bk[1]][bk[2]] = idx})

\* C1: in the result, no two members of one cluster carry the same block
\* number, for every input (also one that seeds two members of a cluster with
\* the same block number).
C1_ClusterExclusivity ==
    Returned =>
        \A c \in DOMAIN clusters : \A i, j \in clusters[c] \cap Records :
            i # j => Bloco[i] # Bloco[j]

\* C2: when the call returns, the output has one record per input record, each
\* with an integer 'Bloco', and every record index is listed exactly once in
\* the blocks, in the block whose number it carries.
C2_TotalCoverage ==
    Returned =>
        /\ DOMAIN Bloco = Records
        /\ \A idx \in Records :
              /\ Bloco[idx] \in Int
              /\ Bloco[idx] # None
              /\ Occurrences(idx) = 1
              /\ \E b \in DOMAIN blocks :
                    idx \in Range(blocks[b]) /\ Bloco[idx] = b + start_block_num - 1

\* a returned call with a seeded record, a placed cluster member and a placed
\* standalone record
C2_Witness ==
    /\ Returned
    /\ Seeded # {}
    /\ \E idx \in Records \ Seeded : record_cluster(idx) # None
    /\ \E idx \in Records \ Seeded : record_cluster(idx) = None

\* C3: every record with a pre-existing block number b has 'Bloco' = b in the
\* output, and every other record gets a number >= start_block_num.
C3_ExistingPreserved ==
    Returned =>
        /\ \A k \in DOMAIN existing_blocos :
              existing_blocos[k][1] \in Records =>
                 Bloco[existing_blocos[k][1]] = existing_blocos[k][2]
        /\ \A idx \in Records \ Seeded : Bloco[idx] >= start_block_num

\* C4: distribute_into_blocks never raises.
C4_NeverRaises == pc # "raised"

\* the blocks of the final partition whose size is outside [min, max]
OutOfBounds ==
    {b \in BlockNumbers :
        Cardinality(BlockMembers(b)) < min_block_size
        \/ Cardinality(BlockMembers(b)) > max_block_size}

\* C5 as stated: for every input with min_size <= max_size, clusters included,
\* at most one block of the final partition has a size outside [min_size, max_size].
C5_SizeBoundsEveryInput ==
    (Returned /\ min_block_size <= max_block_size) => Cardinality(OutOfBounds) <= 1

\* C5 amended: the same, for the calls with 1 <= min_size <= max_size, without
\* clusters and without pre-existing assignments.
C5_SizeBoundsPlain ==
    (/\ Returned
     /\ 1 <= min_block_size
     /\ min_block_size <= max_block_size
     /\ DOMAIN clusters = {}
     /\ existing_blocos = <<>>) => Cardinality(OutOfBounds) <= 1

\* a cluster-free call on four records that ends with a full block and an
\* undersized last block
C5_Witness ==
    /\ Returned
    /\ DOMAIN clusters = {}
    /\ existing_blocos = <<>>
    /\ num_records = 4
    /\ min_block_size = 2
    /\ max_block_size = 3
    /\ Cardinality(BlockNumbers) = 2
    /\ Cardinality(OutOfBounds) = 1

\* C6: 12 records without clusters or pre-existing assignments, min_size 5 and
\* max_size 10, end in exactly 2 blocks, sizes summing to 12, each within [5, 10].
C6_Scenario4 ==
    (/\ Returned
     /\ num_records = 12
     /\ min_block_size = 5
     /\ max_block_size = 10
     /\ DOMAIN clusters = {}
     /\ existing_blocos = <<>>) =>
        /\ Cardinality(BlockNumbers) = 2
        /\ \A idx \in Records : Bloco[idx] \in BlockNumbers
        /\ \A b \in BlockNumbers :
              /\ Cardinality(BlockMembers(b)) >= 5
              /\ Cardinality(BlockMembers(b)) <= 10

----------------------------------------------------------------------------
(* Properties of the Deduplicator *)

Rows(records) == {records[k].row : k \in DOMAIN records}

PassADone == dd.pc \in {"pass_a", "pass_b", "again_a", "again_b"}

PassBDone == dd.pc \in {"pass_b", "again_a", "again_b"}

\* C7: after the handle pass and the strict-address pass, no two survivors
\* have the same non-empty normalized handle.
C7_NoDuplicateHandles ==
    PassBDone =>
        LET handle == [i \in DOMAIN dd.pass_b.kept |->
                          normalize_instagram(dd.pass_b.kept[i].instagram)]
        IN \A i, j \in DOMAIN handle :
              i # j => (handle[i] # handle[j] \/ handle[i] = <<>> \/ handle[j] = <<>>)

\* three ingested records, one dropped for its handle, two survivors with
\* different non-empty handles
C7_Witness ==
    /\ dd.pc = "pass_b"
    /\ Len(dd.records) = 3
    /\ Len(dd.pass_a.audit) = 1
    /\ \E i, j \in DOMAIN dd.pass_b.kept :
          /\ i # j
          /\ normalize_instagram(dd.pass_b.kept[i].instagram) # <<>>
          /\ normalize_instagram(dd.pass_b.kept[j].instagram) # <<>>

\* C8: running the two passes on the survivors of a previous run removes no
\* record and emits no audit entry.
C8_Idempotent ==
    /\ dd.pc \in {"again_a", "again_b"} =>
          /\ dd.again_a.kept = dd.pass_b.kept
          /\ dd.again_a.audit = <<>>
    /\ dd.pc = "again_b" =>
          /\ dd.again_b.kept = dd.pass_b.kept
          /\ dd.again_b.audit = <<>>

\* a second run after a first run in which both passes dropped a record
C8_Witness ==
    /\ dd.pc = "again_b"
    /\ Len(dd.pass_a.kept) < Len(dd.records)
    /\ Len(dd.pass_b.kept) < Len(dd.pass_a.kept)

\* the keep rule of one pass, stated on sets: of every key group with more than
\* one record exactly the lowest position with history, or else the lowest
\* position, survives; every other record survives; the order is kept
KeepRule(input, output, keys, eligibility) ==
    \A key \in {keys}, eligible \in {eligibility},
       history \in {[i \in DOMAIN input |-> has_historical_data(input[i])]},
       survivors \in {Rows(output)} :
          LET group(i) == {j \in DOMAIN input : eligible[j] /\ key[j] = key[i]}
              historic(i) == {j \in group(i) : history[j]}
              lowest(S) == CHOOSE m \in S : \A o \in S : m <= o
              expected(i) == IF historic(i) # {} THEN lowest(historic(i))
                             ELSE lowest(group(i))
              grouped(i) == eligible[i] /\ Cardinality(group(i)) > 1
          IN /\ \A i \in DOMAIN input :
                   IF grouped(i)
                   THEN (input[i].row \in survivors) <=> (i = expected(i))
                   ELSE input[i].row \in survivors
             /\ output = SelectSeq(input, LAMBDA r : r.row \in survivors)

\* the normalized handle of every record of a list, and whether it is non-empty
HandleKeys(records) ==
    [i \in DOMAIN records |-> normalize_instagram(records[i].instagram)]

HasHandle(records) ==
    [i \in DOMAIN records |-> normalize_instagram(records[i].instagram) # <<>>]

\* the triple (street_base, house_number, cep) of every record of a list, and
\* whether the record has a non-empty address, a house number and a street base
StrictAddresses(records) ==
    [i \in DOMAIN records |->
        <<normalize_address_street(records[i].address),
          extract_address_number(records[i].address),
          extract_cep(records[i].address)>>]

HasStrictAddress(records) ==
    [i \in DOMAIN records |->
        /\ records[i].address # <<>>
        /\ extract_address_number(records[i].address) # NoNumber
        /\ normalize_address_street(records[i].address) # <<>>]

\* C9: in each pass every key group with more than one record leaves exactly
\* one survivor, the lowest-index member with history if any, otherwise the
\* lowest-index member; the other records are kept, in their input order.
C9_KeepRule ==
    /\ PassADone => KeepRule(dd.records, dd.pass_a.kept,
                              HandleKeys(dd.records), HasHandle(dd.records))
    /\ PassBDone => KeepRule(dd.pass_a.kept, dd.pass_b.kept,
                              StrictAddresses(dd.pass_a.kept),
                              HasStrictAddress(dd.pass_a.kept))

\* both passes dropped a record, one of them by history priority against the
\* input order
C9_Witness ==
    /\ dd.pc = "pass_b"
    /\ Len(dd.pass_a.audit) = 1
    /\ Len(dd.pass_b.audit) = 1
    /\ \E e \in Range(dd.pass_a.audit) \cup Range(dd.pass_b.audit) :
          e.linha_mantida > e.linhas_removidas[1]

\* C10: the strict-address pass never removes a record whose address is empty,
\* has no extractable house number or has an empty street base, and the handle
\* pass never removes a record whose handle normalizes to empty.
C10_NeverRemoved ==
    /\ PassADone =>
          \A i \in DOMAIN dd.records :
              normalize_instagram(dd.records[i].instagram) = <<>> =>
                 dd.records[i].row \in Rows(dd.pass_a.kept)
    /\ PassBDone =>
          \A i \in DOMAIN dd.pass_a.kept :
              (\/ dd.pass_a.kept[i].address = <<>>
               \/ extract_address_number(dd.pass_a.kept[i].address) = NoNumber
               \/ normalize_address_street(dd.pass_a.kept[i].address) = <<>>) =>
                 dd.pass_a.kept[i].row \in Rows(dd.pass_b.kept)

\* two survivors of both passes share an address without house number and a
\* handle that normalizes to empty
C10_Witness ==
    /\ dd.pc = "pass_b"
    /\ \E i, j \in DOMAIN dd.pass_b.kept :
          /\ i # j
          /\ dd.pass_b.kept[i].address = dd.pass_b.kept[j].address
          /\ dd.pass_b.kept[i].address # <<>>
          /\ extract_address_number(dd.pass_b.kept[i].address) = NoNumber
          /\ dd.pass_b.kept[i].instagram # <<>>
          /\ normalize_instagram(dd.pass_b.kept[i].instagram) = <<>>
          /\ normalize_instagram(dd.pass_b.kept[j].instagram) = <<>>

\* the street words of an address: its base without the house number and the CEP
StreetWords(address) ==
    SelectSeq(normalize_address_street(address),
              LAMBDA w : w # extract_cep(address) /\ ~ IsNumber(w))

NamedRows(entry) == {entry.linha_mantida} \cup Range(entry.linhas_removidas)

\* C18: every audit entry of both passes names its records by their index in
\* the ingested list: the record a pass read at the position an entry names
\* was ingested at that position.
C18_AuditNamesIngestedRows ==
    /\ PassADone =>
          \A e \in Range(dd.pass_a.audit) : \A p \in NamedRows(e) :
              dd.records[p].row = p
    /\ PassBDone =>
          \A e \in Range(dd.pass_b.audit) : \A p \in NamedRows(e) :
              dd.pass_a.kept[p].row = p

\* C19: two ingested records with the handles "@Foo" and "foo " have the same
\* normalized handle; the handle pass keeps exactly one record with that handle
\* and writes exactly one audit entry, of criterion "Instagram identico", that
\* names both.
C19_Scenario1 ==
    PassADone =>
        \A i, j \in DOMAIN dd.records :
            (dd.records[i].instagram = Handles.foo_at
             /\ dd.records[j].instagram = Handles.foo_blank) =>
                /\ normalize_instagram(dd.records[i].instagram)
                      = normalize_instagram(dd.records[j].instagram)
                /\ Cardinality({k \in DOMAIN dd.pass_a.kept :
                                   normalize_instagram(dd.pass_a.kept[k].instagram)
                                      = normalize_instagram(dd.records[i].instagram)}) = 1
                /\ Cardinality({k \in DOMAIN dd.pass_a.audit :
                                   NamedRows(dd.pass_a.audit[k]) \cap {i, j} # {}}) = 1
                /\ \E k \in DOMAIN dd.pass_a.audit :
                      /\ {i, j} \subseteq NamedRows(dd.pass_a.audit[k])
                      /\ dd.pass_a.audit[k].criterio.nome = "Instagram identico"

\* the list ("@Foo", "foo ") after the handle pass: one survivor, one entry
C19_Witness ==
    /\ dd.pc = "pass_a"
    /\ Len(dd.records) = 2
    /\ dd.records[1].instagram = Handles.foo_at
    /\ dd.records[2].instagram = Handles.foo_blank
    /\ Len(dd.pass_a.kept) = 1
    /\ Len(dd.pass_a.audit) = 1

----------------------------------------------------------------------------
(* Frame of distribute_into_blocks *)

\* C20: distribute_into_blocks changes neither the input list, nor any input
\* record (its 'Bloco' key included), nor the cluster map, nor the map of
\* pre-existing assignments; the output record at position p is another object
\* than every input record and equals the input record at p with 'Bloco' set.
C20_InputsUnchanged ==
    /\ [][/\ records_in' = records_in
          /\ \A o \in Range(records_in) : heap'[o] = heap[o]
          /\ clusters' = clusters
          /\ existing_blocos' = existing_blocos]_vars
    /\ [](Returned =>
             \A p \in DOMAIN records_in :
                 /\ records_with_blocks[p] \notin Range(records_in)
                 /\ heap[records_with_blocks[p]] =
                       [heap[records_in[p]] EXCEPT !.Bloco = Bloco[p - 1]])

\* a returned call with clusters and pre-existing assignments in which an
\* output record carries another 'Bloco' than the input record it copies
C20_Witness ==
    /\ Returned
    /\ num_records >= 2
    /\ DOMAIN clusters # {}
    /\ existing_blocos # <<>>
    /\ \E p \in DOMAIN records_in :
          /\ heap[records_in[p]].Bloco # None
          /\ heap[records_with_blocks[p]].Bloco # heap[records_in[p]].Bloco

\* C15: a call with min_size > max_size does not return a partition.
C15_RejectsInvertedSizes ==
    min_block_size > max_block_size => ~ Returned

----------------------------------------------------------------------------
(* Properties of calculate_similarity *)

\* two scores are the same number
SameScore(x, y) == x[1] * y[2] = y[1] * x[2]

\* C16: calculate_similarity(a, b) = calculate_similarity(b, a) for all
\* strings a and b of the bounds, and the score is 0 when a or b is empty.
C16_Symmetric ==
    sm.pc = "done" =>
        /\ SameScore(sm.forward, sm.backward)
        /\ (sm.str1 = <<>> \/ sm.str2 = <<>>) => sm.forward[1] = 0

----------------------------------------------------------------------------
(* Properties of identify_clusters *)

ClustersReturned == ic # <<>> /\ ic.pc = "returned"

\* identify_clusters has returned and nothing has happened since
JustClustered == ClustersReturned /\ pc = "idle"

\* records i and j satisfy a clustering rule with each other: the test the
\* loop makes when it compares the later of the two with the earlier
Related(i, j) ==
    IF i > j THEN same_cluster(ic.records[i + 1], ic.records[j + 1])
    ELSE same_cluster(ic.records[j + 1], ic.records[i + 1])

\* i and j are members of one returned cluster
Clustered(i, j) == \E c \in DOMAIN ic.result : {i, j} \subseteq ic.result[c]

ClusterIndices == 0 .. Len(ic.records) - 1

\* C12: after identify_clusters and distribute_into_blocks without pre-existing
\* assignments, two records that satisfy a clustering rule with each other are
\* in one cluster and have different block numbers.
C12_RelatedNeverShareBlock ==
    (ClustersReturned /\ Returned) =>
        \A i, j \in ClusterIndices :
            (i # j /\ Related(i, j)) => (Clustered(i, j) /\ Bloco[i] # Bloco[j])

\* C13: when records i and k both match a record j and do not match each
\* other, the three are in one returned cluster, wherever j stands in the list.
C13_ChainMembership ==
    JustClustered =>
        \A i, j, k \in ClusterIndices :
            (/\ i # j /\ j # k /\ i # k
             /\ Related(i, j) /\ Related(k, j) /\ ~ Related(i, k)) =>
                \E c \in DOMAIN ic.result : {i, j, k} \subseteq ic.result[c]

\* C14: every returned cluster has at least two members, all of them indices
\* of the list; the clusters are pairwise disjoint; a record that matches no
\* other record is in no cluster.
C14_ClustersWellFormed ==
    JustClustered =>
        /\ \A c \in DOMAIN ic.result :
              /\ Cardinality(ic.result[c]) >= 2
              /\ ic.result[c] \subseteq ClusterIndices
        /\ \A c, d \in DOMAIN ic.result : c # d => ic.result[c] \cap ic.result[d] = {}
        /\ \A i \in ClusterIndices :
              (\A j \in ClusterIndices \ {i} : ~ Related(i, j)) =>
                 \A c \in DOMAIN ic.result : i \notin ic.result[c]

\* a cluster of three is returned and a record that matches nobody is left out
C14_Witness ==
    /\ JustClustered
    /\ \E c \in DOMAIN ic.result : Cardinality(ic.result[c]) = 3
    /\ \E i \in ClusterIndices :
          /\ \A j \in ClusterIndices \ {i} : ~ Related(i, j)
          /\ \A c \in DOMAIN ic.result : i \notin ic.result[c]

----------------------------------------------------------------------------
(* Properties of assign_blocks_to_restaurants *)

\* C17: assign_blocks_to_restaurants returns, for every input list, the same
\* restaurants in the same order, each with a block number: the number it
\* arrived with if it had one.
C17_AssignKeepsBlocks ==
    /\ ab.pc # "raised"
    /\ ab.pc = "returned" =>
          /\ Len(ab.result) = Len(ab.restaurants)
          /\ \A k \in DOMAIN ab.restaurants :
                /\ ab.result[k].name = ab.restaurants[k].name
                /\ ab.result[k].instagram_username = ab.restaurants[k].instagram_username
                /\ ab.result[k].bloco # None
                /\ ab.restaurants[k].bloco # None =>
                      ab.result[k].bloco = ab.restaurants[k].bloco

----------------------------------------------------------------------------
(* Properties of the cleanup and of the balancing passes *)

C22_FallbackUnreachable ==
    pc = "assign" => Unassigned(blocks) = <<>>

\* the cleanup is reached after seeding, cluster placement, standalone
\* placement and a merge that emptied a block
C22_Witness ==
    /\ pc = "assign"
    /\ Seeded # {}
    /\ \E idx \in Records \ Seeded : record_cluster(idx) # None
    /\ \E idx \in Records \ Seeded : record_cluster(idx) = None
    /\ iteration > 0

\* the clusters that block b really holds
ClustersIn(b) == {record_cluster(blocks[b][k]) : k \in DOMAIN blocks[b]} \ {None}

\* a member of an undersized block could still go to another block that has
\* reached min_size, is below max_size and holds nobody of its cluster
Movable ==
    \E b \in DOMAIN blocks : \E k \in DOMAIN blocks[b] : \E t \in DOMAIN blocks :
        /\ Len(blocks[b]) < min_block_size
        /\ t # b
        /\ Len(blocks[t]) >= min_block_size
        /\ Len(blocks[t]) < max_block_size
        /\ record_cluster(blocks[b][k]) \notin ClustersIn(t)

\* C23: when pass 1 is over, it did not stop on the iteration bound, and no
\* block is below min_size or no member of an undersized block can be moved.
C23_PassOneFixedPoint ==
    pc = "pass2" =>
        /\ ~ (iteration = max_iterations /\ last_changed)
        /\ ~ Movable

\* pass 1 moved a record in its first iteration and stopped in the second
C23_Witness ==
    /\ pc = "pass2"
    /\ iteration = 2
    /\ SmallBlocks(blocks) # <<>>
    /\ ~ last_changed

\* C24: no block ever holds more than max_size records, in any step.
C24_NeverAboveMax ==
    \A b \in DOMAIN blocks : Len(blocks[b]) <= max_block_size

\* the pre-existing block number of a seeded record
ExistingNumber(idx) ==
    existing_blocos[CHOOSE k \in DOMAIN existing_blocos : existing_blocos[k][1] = idx][2]

\* C25: two records that both carry a pre-existing assignment end in the same
\* final block if and only if their pre-existing block numbers are equal.
C25_SeededBlocksKept ==
    Returned =>
        \A i, j \in Seeded :
            (Bloco[i] = Bloco[j]) <=> (ExistingNumber(i) = ExistingNumber(j))

\* the records in index order, max_size per block, the remainder in the last
SequentialBlocks ==
    [b \in 1 .. (num_records + max_block_size - 1) \div max_block_size |->
        [k \in 1 .. (IF b * max_block_size <= num_records
                     THEN max_block_size
                     ELSE num_records - (b - 1) * max_block_size) |->
            (b - 1) * max_block_size + k - 1]]

MergeablePair ==
    \E b1, b2 \in DOMAIN blocks :
        /\ b1 # b2
        /\ Len(blocks[b1]) < min_block_size
        /\ Len(blocks[b2]) < min_block_size
        /\ Len(blocks[b1]) + Len(blocks[b2]) <= max_block_size
        /\ ClustersIn(b1) \cap ClustersIn(b2) = {}

\* C29: without pre-existing assignments, the final partition has no two
\* undersized blocks that could be merged.
C29_MergeComplete ==
    (Returned /\ existing_blocos = <<>>) => ~ MergeablePair

\* a returned call without pre-existing assignments that went through both
\* passes and keeps two undersized blocks, which hold members of one cluster
C29_Witness ==
    /\ Returned
    /\ existing_blocos = <<>>
    /\ iteration > 0
    /\ \E b1, b2 \in DOMAIN blocks :
          /\ b1 # b2
          /\ Len(blocks[b1]) < min_block_size
          /\ Len(blocks[b2]) < min_block_size
          /\ Len(blocks[b1]) + Len(blocks[b2]) <= max_block_size
          /\ ClustersIn(b1) \cap ClustersIn(b2) # {}

----------------------------------------------------------------------------
(* Properties of the cluster assignment *)

\* the earlier records that record i matches
EarlierMatches(i) == {j \in 0 .. i - 1 : Related(i, j)}

\* the cluster id record i got
ClusterOf(i) == ic.record_to_cluster[i + 1]

\* C26: record i is in the cluster of the lowest-index earlier record that it
\* matches, and has a cluster id no earlier record has when it matches none;
\* every member of a returned cluster but the lowest matches an earlier member.
C26_JoinsFirstMatch ==
    JustClustered =>
        /\ \A i \in ClusterIndices :
              \E matching \in {EarlierMatches(i)} :
                 IF matching = {}
                 THEN \A j \in 0 .. i - 1 : ClusterOf(j) # ClusterOf(i)
                 ELSE \E first \in matching :
                         /\ \A o \in matching : first <= o
                         /\ ClusterOf(i) = ClusterOf(first)
        /\ \A c \in DOMAIN ic.result : \A i \in ic.result[c] :
              \/ \A o \in ic.result[c] : i <= o
              \/ \E j \in ic.result[c] : j < i /\ Related(i, j)

\* a record matches two earlier records of different clusters
C26_Witness ==
    /\ JustClustered
    /\ \E i \in ClusterIndices : \E j1, j2 \in 0 .. i - 1 :
          /\ j1 < j2
          /\ ClusterOf(j1) # ClusterOf(j2)
          /\ Related(i, j1)
          /\ Related(i, j2)

----------------------------------------------------------------------------
(* Properties of the dedup audit *)

\* the items of the removed lists of an audit: <<entry, place in its list>>
RemovedItems(audit) ==
    {ek \in {<<e, k>> : e \in DOMAIN audit, k \in 1 .. Len(dd.records)} :
        ek[2] \in DOMAIN audit[ek[1]].linhas_removidas}

\* the audit of one pass accounts for its removals: one entry per key group of
\* more than one record, naming that group, and no other entry; every dropped
\* record is an item of exactly one removed list; no entry removes what it keeps
AuditRule(input, output, audit, keys, eligibility) ==
    \A key \in {keys}, eligible \in {eligibility}, survivors \in {Rows(output)},
       removed \in {RemovedItems(audit)} :
          LET group(i) == {j \in DOMAIN input : eligible[j] /\ key[j] = key[i]}
              groups == {group(i) : i \in {j \in DOMAIN input : eligible[j]}}
              multi == {g \in groups : Cardinality(g) > 1}
          IN /\ Len(audit) = Cardinality(multi)
             /\ \A g \in multi :
                   Cardinality({e \in DOMAIN audit : NamedRows(audit[e]) = g}) = 1
             /\ \A i \in DOMAIN input :
                   Cardinality({ek \in removed :
                                   audit[ek[1]].linhas_removidas[ek[2]] = i}) =
                      IF input[i].row \in survivors THEN 0 ELSE 1
             /\ \A e \in DOMAIN audit :
                   audit[e].linha_mantida \notin Range(audit[e].linhas_removidas)

\* C27: each pass writes one audit entry per key group of more than one record
\* and none else, every record a pass drops is in the removed list of exactly
\* one entry of that pass, no entry lists its kept record as removed, and the
\* removed lists of both passes together have input count minus survivor count
\* items.
C27_AuditAccountsForRemovals ==
    /\ PassADone => AuditRule(dd.records, dd.pass_a.kept, dd.pass_a.audit,
                               HandleKeys(dd.records), HasHandle(dd.records))
    /\ PassBDone =>
          /\ AuditRule(dd.pass_a.kept, dd.pass_b.kept, dd.pass_b.audit,
                       StrictAddresses(dd.pass_a.kept),
                       HasStrictAddress(dd.pass_a.kept))
          /\ Cardinality(RemovedItems(dd.pass_a.audit))
                + Cardinality(RemovedItems(dd.pass_b.audit))
                = Len(dd.records) - Len(dd.pass_b.kept)

\* both passes ran and each dropped a record, leaving one survivor of three
C27_Witness ==
    /\ dd.pc = "pass_b"
    /\ Len(dd.records) = 3
    /\ Len(dd.pass_b.kept) = 1
    /\ Len(dd.pass_a.audit) = 1
    /\ Len(dd.pass_b.audit) = 1

----------------------------------------------------------------------------
(* Properties of process_restaurants_csv *)

\* distribute_into_blocks has been called by process_restaurants_csv
CsvCalled == dd # <<>> /\ dd.pc = "pass_b" /\ pc # "idle"

\* C30: the map handed to distribute_into_blocks gives every surviving record
\* that has a number in its "Bloco" cell that number under the record's index
\* in the list of survivors, and has no other entry.
C30_SeededWithOwnBlock ==
    CsvCalled =>
        /\ \A e \in DOMAIN existing_blocos :
              /\ existing_blocos[e][1] < Len(dd.pass_b.kept)
              /\ dd.pass_b.kept[existing_blocos[e][1] + 1].bloco = existing_blocos[e][2]
        /\ \A k \in DOMAIN dd.pass_b.kept :
              dd.pass_b.kept[k].bloco # None =>
                 \E e \in DOMAIN existing_blocos :
                    existing_blocos[e] = <<k - 1, dd.pass_b.kept[k].bloco>>

====
